---- MODULE Spec2Model ----
(***************************************************************************)
(* Chicago crime dashboard: the choropleth pipeline (hotspots.py), the     *)
(* dashboard pipeline (main.py) and the dashboard's client-side control    *)
(* script (the JavaScript that main.py embeds in the document).            *)
(***************************************************************************)
EXTENDS Integers, Sequences, FiniteSets

VARIABLES
    pipeline,       \* which entry point runs: "hotspots" or "dashboard"
    pc,             \* position of the run inside its entry point
    outcome,        \* "running", "returned" (main returned) or "raised"
    faults,         \* the steps at which an exception was raised in this run
    log,            \* what was printed, in order: <<text, argument>>
    feed,           \* the polygons the remote boundary service holds
    db,             \* the rows of the homicides table
    conn,           \* the sqlite connection: "none", "open" or "closed"
    opens,          \* how many times sqlite3.connect returned a connection
    queries,        \* how many times read_sql_query was called
    neighborhoods,  \* hotspots.py: None or Some(sequence of polygons)
    crime_data,     \* hotspots.py: None or Some(sequence of incident points)
    data,           \* main.py: the incident collection with its derived columns
    layers,         \* the overlay layers attached to the map object, in order
    hour_counts,    \* main.py: the hourly view, a sequence of <<label, count>>
    file,           \* the output file: "absent", "old", "empty", "partial", "full"
    checked,        \* browser: layer name -> is its overlay checkbox checked
    isHeatmapMode,  \* browser: the control script's mode flag
    yearSelect,     \* browser: the value of the yearSelect drop-down
    buttonText,     \* browser: the text of the toggle button
    started,        \* browser: how many DOMContentLoaded listeners have run
    lastCall        \* browser: the last thing that happened on the page

pipeVars == <<pipeline, pc, outcome, faults, log, feed, db, conn, opens, queries,
              neighborhoods, crime_data, data, layers, hour_counts, file>>
clientVars == <<checked, isHeatmapMode, yearSelect, buttonText, started, lastCall>>
vars == <<pipeVars, clientVars>>

(***************************************************************************)
(* Bounds of the model.                                                    *)
(***************************************************************************)
MaxPolys == 2       \* polygons in the boundary feed
MaxPoints == 2      \* located incidents in the table
GridMax == 3        \* the coordinates are 0..GridMax

(***************************************************************************)
(* Values shared by both pipelines.                                        *)
(***************************************************************************)
None == <<>>
Some(v) == <<v>>
Unwrap(o) == o[1]

Range(s) == {s[i] : i \in DOMAIN s}

RECURSIVE SumSeq(_)
SumSeq(s) == IF s = <<>> THEN 0 ELSE Head(s) + SumSeq(Tail(s))

(***************************************************************************)
(* The homicides table and the boundary feed.                              *)
(***************************************************************************)
\* a row of the table; Latitude and Longitude are None (NULL) or Some(number);
\* Date is the timestamp, kept as the parts the pipelines read from it
Row(lat, lon, year, month, hour, dow) ==
    [Latitude |-> lat, Longitude |-> lon, Year |-> year,
     Date |-> [month |-> month, hour |-> hour, dayofweek |-> dow]]

\* a polygon of the feed: an axis-parallel rectangle with corners on the grid
Rect(x1, y1, x2, y2) == [x1 |-> x1, y1 |-> y1, x2 |-> x2, y2 |-> y2]

\* WHERE Latitude IS NOT NULL AND Longitude IS NOT NULL
Located(r) == r.Latitude # None /\ r.Longitude # None

(***************************************************************************)
(* hotspots.py: the choropleth pipeline.                                   *)
(***************************************************************************)
DensityScale == 10000000   \* 1e7
TopRows == 10              \* nlargest(10, ...)

\* gpd.GeoDataFrame.from_features(response.json()["features"])
FromFeatures(features) == [i \in DOMAIN features |-> [geometry |-> features[i]]]

\* the query of load_crime_data and the Point geometry built from each row
CrimeRows(rows) ==
    LET kept == SelectSeq(rows, Located)
    IN  [i \in DOMAIN kept |->
            [Latitude |-> Unwrap(kept[i].Latitude),
             Longitude |-> Unwrap(kept[i].Longitude),
             Year |-> kept[i].Year, Date |-> kept[i].Date,
             geometry |-> <<Unwrap(kept[i].Longitude), Unwrap(kept[i].Latitude)>>]]

\* point.within(polygon): the point lies in the polygon's interior
Within(point, polygon) ==
    /\ polygon.x1 < point[1] /\ point[1] < polygon.x2
    /\ polygon.y1 < point[2] /\ point[2] < polygon.y2

\* the count without the containment test
CrimeCount_All(crimes, polygon) == Len(crimes)

\* sum(crime_data.geometry.within(neighborhood.geometry))
CrimeCount(crimes, polygon) ==
    SumSeq([i \in DOMAIN crimes |->
               IF Within(crimes[i].geometry, polygon) THEN 1 ELSE 0])

Area(polygon) == (polygon.x2 - polygon.x1) * (polygon.y2 - polygon.y1)

\* the aggregation loop and the density column; the density is the exact
\* quotient num / den
Aggregated(polys, crimes) ==
    [i \in DOMAIN polys |->
        LET n == CrimeCount(crimes, polys[i].geometry)
        IN  [geometry |-> polys[i].geometry,
             crime_count |-> n,
             crime_density |-> [num |-> n * DensityScale,
                                den |-> Area(polys[i].geometry)]]]

\* the guard with `and` in the place of `or`
LoadFailed_And(n, c) == n = None /\ c = None

\* if neighborhoods is None or crime_data is None
LoadFailed(n, c) == n = None \/ c = None

\* a printed line: its text and its argument (a string; the rows of the table
\* for the statistics table)
Say(text, arg) == Append(log, <<text, arg>>)

Untouched(f) == f \in {"absent", "old"}

H_Start ==
    /\ pipeline = "hotspots" /\ pc = "start"
    /\ log' = Append(Say("Starting hotspot analysis...", ""),
                     <<"Loading neighborhood boundaries...", "">>)
    /\ pc' = "fetch"
    /\ UNCHANGED <<pipeline, outcome, faults, feed, db, conn, opens, queries,
                   neighborhoods, crime_data, data, layers, hour_counts, file,
                   clientVars>>

\* load_chicago_neighborhoods, the request and the parse succeed
H_FetchOk ==
    /\ pipeline = "hotspots" /\ pc = "fetch"
    /\ neighborhoods' = Some(FromFeatures(feed))
    /\ log' = Say("Loading crime data...", "")
    /\ pc' = "connect"
    /\ UNCHANGED <<pipeline, outcome, faults, feed, db, conn, opens, queries,
                   crime_data, data, layers, hour_counts, file, clientVars>>

\* load_chicago_neighborhoods, requests.get or the parse raises
H_FetchFail ==
    /\ pipeline = "hotspots" /\ pc = "fetch"
    /\ faults' = faults \cup {"fetch"}
    /\ neighborhoods' = None
    /\ log' = Append(Say("Error loading neighborhood data", "fetch"),
                     <<"Loading crime data...", "">>)
    /\ pc' = "connect"
    /\ UNCHANGED <<pipeline, outcome, feed, db, conn, opens, queries,
                   crime_data, data, layers, hour_counts, file, clientVars>>

H_ConnectOk ==
    /\ pipeline = "hotspots" /\ pc = "connect"
    /\ conn' = "open"
    /\ opens' = opens + 1
    /\ pc' = "query"
    /\ UNCHANGED <<pipeline, outcome, faults, log, feed, db, queries,
                   neighborhoods, crime_data, data, layers, hour_counts, file,
                   clientVars>>

\* sqlite3.connect raises: the except clause prints and returns None
H_ConnectFail ==
    /\ pipeline = "hotspots" /\ pc = "connect"
    /\ faults' = faults \cup {"connect"}
    /\ crime_data' = None
    /\ log' = Say("Error loading crime data", "connect")
    /\ pc' = "check"
    /\ UNCHANGED <<pipeline, outcome, feed, db, conn, opens, queries,
                   neighborhoods, data, layers, hour_counts, file, clientVars>>

\* read_sql_query returns, conn.close(), the GeoDataFrame is built
H_QueryOk ==
    /\ pipeline = "hotspots" /\ pc = "query"
    /\ queries' = queries + 1
    /\ conn' = "closed"
    /\ crime_data' = Some(CrimeRows(db))
    /\ pc' = "check"
    /\ UNCHANGED <<pipeline, outcome, faults, log, feed, db, opens,
                   neighborhoods, data, layers, hour_counts, file, clientVars>>

\* read_sql_query returns and conn.close() runs, then building the Point list or
\* the GeoDataFrame raises inside the try: the except clause prints and returns
\* None
H_GeometryFail ==
    /\ pipeline = "hotspots" /\ pc = "query"
    /\ queries' = queries + 1
    /\ conn' = "closed"
    /\ faults' = faults \cup {"geometry"}
    /\ crime_data' = None
    /\ log' = Say("Error loading crime data", "geometry")
    /\ pc' = "check"
    /\ UNCHANGED <<pipeline, outcome, feed, db, opens,
                   neighborhoods, data, layers, hour_counts, file, clientVars>>

\* read_sql_query raises: control leaves the try body before conn.close()
H_QueryFail ==
    /\ pipeline = "hotspots" /\ pc = "query"
    /\ queries' = queries + 1
    /\ faults' = faults \cup {"query"}
    /\ crime_data' = None
    /\ log' = Say("Error loading crime data", "query")
    /\ pc' = "check"
    /\ UNCHANGED <<pipeline, outcome, feed, db, conn, opens,
                   neighborhoods, data, layers, hour_counts, file, clientVars>>

\* the guard of create_chloropleth_map: print and return
H_CheckAbort ==
    /\ pipeline = "hotspots" /\ pc = "check"
    /\ LoadFailed(neighborhoods, crime_data)
    /\ log' = Say("Error: Could not load required data", "")
    /\ pc' = "complete"
    /\ UNCHANGED <<pipeline, outcome, faults, feed, db, conn, opens, queries,
                   neighborhoods, crime_data, data, layers, hour_counts, file,
                   clientVars>>

H_CheckPass ==
    /\ pipeline = "hotspots" /\ pc = "check"
    /\ ~LoadFailed(neighborhoods, crime_data)
    /\ log' = Say("Analyzing crime patterns...", "")
    /\ pc' = "aggregate"
    /\ UNCHANGED <<pipeline, outcome, faults, feed, db, conn, opens, queries,
                   neighborhoods, crime_data, data, layers, hour_counts, file,
                   clientVars>>

\* the counting loop and the density column
H_Aggregate ==
    /\ pipeline = "hotspots" /\ pc = "aggregate"
    /\ neighborhoods # None /\ crime_data # None
    /\ neighborhoods' = Some(Aggregated(Unwrap(neighborhoods), Unwrap(crime_data)))
    /\ log' = Say("Creating chloropleth map...", "")
    /\ pc' = "render"
    /\ UNCHANGED <<pipeline, outcome, faults, feed, db, conn, opens, queries,
                   crime_data, data, layers, hour_counts, file, clientVars>>

\* a step of create_chloropleth_map raises: the exception reaches main
H_Raise(step) ==
    /\ faults' = faults \cup {step}
    /\ pc' = "except"
    /\ UNCHANGED <<pipeline, outcome, feed, db, conn, opens, queries,
                   crime_data, data, hour_counts, clientVars>>

\* the frame when the loop has filled the counts of the first k polygons: the
\* crime_count column of line 60, no density column yet
PartlyCounted(polys, crimes, k) ==
    [i \in DOMAIN polys |->
        [geometry |-> polys[i].geometry,
         crime_count |-> IF i <= k THEN CrimeCount(crimes, polys[i].geometry)
                         ELSE 0]]

\* a line of 60-66 raises: on a frame that is None at line 60; otherwise in the
\* loop after k polygons, or at the density with every polygon counted
H_AggregateFail ==
    /\ pipeline = "hotspots" /\ pc = "aggregate"
    /\ H_Raise("aggregate")
    /\ IF neighborhoods = None THEN UNCHANGED neighborhoods
       ELSE \E k \in 0 .. (IF crime_data = None THEN 0
                            ELSE Len(Unwrap(neighborhoods))) :
               neighborhoods' =
                   Some(PartlyCounted(Unwrap(neighborhoods), Unwrap(crime_data), k))
    /\ UNCHANGED <<log, layers, file>>

\* the GeoJson layer of the map, with one feature per polygon
DensityLayer == [name |-> <<"Crime Density">>, items |-> Len(Unwrap(neighborhoods))]

\* the HeatMap layer, with one point per incident
HeatLayer == [name |-> <<"HeatMap">>, items |-> Len(Unwrap(crime_data))]

\* the map, the colour scale, the GeoJson layer, the colour map and the legend,
\* then the print before the heatmap
H_Render ==
    /\ pipeline = "hotspots" /\ pc = "render"
    /\ layers' = <<DensityLayer>>
    /\ log' = Say("Adding heatmap layer...", "")
    /\ pc' = "heatmap"
    /\ UNCHANGED <<pipeline, outcome, faults, feed, db, conn, opens, queries,
                   neighborhoods, crime_data, data, hour_counts, file, clientVars>>

\* a line of 70-131 raises, before or after the GeoJson layer was attached
H_RenderFail ==
    /\ pipeline = "hotspots" /\ pc = "render"
    /\ H_Raise("render")
    /\ layers' \in {<<>>, <<DensityLayer>>}
    /\ UNCHANGED <<neighborhoods, log, file>>

\* the heat data, the HeatMap layer and the layer control
H_Heatmap ==
    /\ pipeline = "hotspots" /\ pc = "heatmap"
    /\ layers' = Append(layers, HeatLayer)
    /\ pc' = "save"
    /\ UNCHANGED <<pipeline, outcome, faults, log, feed, db, conn, opens,
                   queries, neighborhoods, crime_data, data, hour_counts, file,
                   clientVars>>

\* a line of 135-139 raises, before or after the HeatMap layer was attached:
\* a failure of the rendering too, after its print
H_HeatmapFail ==
    /\ pipeline = "hotspots" /\ pc = "heatmap"
    /\ H_Raise("render")
    /\ layers' \in {layers, Append(layers, HeatLayer)}
    /\ UNCHANGED <<neighborhoods, log, file>>

\* m.save(output_file) returns
H_Save ==
    /\ pipeline = "hotspots" /\ pc = "save"
    /\ file' = "full"
    /\ log' = Say("Map saved as", "chicago_crime_hotspots.html")
    /\ pc' = "stats"
    /\ UNCHANGED <<pipeline, outcome, faults, feed, db, conn, opens, queries,
                   neighborhoods, crime_data, data, layers, hour_counts,
                   clientVars>>

\* m.save raises: the library may have failed before opening the file, after
\* opening it or while writing it
H_SaveFail ==
    /\ pipeline = "hotspots" /\ pc = "save"
    /\ H_Raise("save")
    /\ file' \in {file, "empty", "partial"}
    /\ UNCHANGED <<neighborhoods, log, layers>>

RECURSIVE Largest(_, _)
\* DataFrame.nlargest(n, 'crime_count'): the n rows with the largest counts, the
\* largest first, rows with equal counts in their order in the frame
Largest(rows, n) ==
    IF n = 0 \/ rows = <<>> THEN <<>>
    ELSE LET top == CHOOSE i \in DOMAIN rows :
                        /\ \A j \in DOMAIN rows : rows[j].crime_count <= rows[i].crime_count
                        /\ \A j \in 1 .. (i - 1) : rows[j].crime_count < rows[i].crime_count
             rest == [j \in 1 .. (Len(rows) - 1) |->
                         IF j < top THEN rows[j] ELSE rows[j + 1]]
         IN  <<rows[top]>> \o Largest(rest, n - 1)

\* the rows of the statistics table: crime_count and crime_density of the top
\* rows
StatsTable(polys) ==
    LET top == Largest(polys, TopRows)
    IN  [i \in DOMAIN top |->
            [crime_count |-> top[i].crime_count,
             crime_density |-> top[i].crime_density]]

\* what the lines after the save print, in order
StatsPrints ==
    <<<<"Crime Statistics by Neighborhood:", "">>,
      <<"Top 10 Neighborhoods by Crime Count:", "">>,
      <<"statistics table", StatsTable(Unwrap(neighborhoods))>>>>

\* the heading, nlargest, the second heading and the table
H_Stats ==
    /\ pipeline = "hotspots" /\ pc = "stats"
    /\ log' = log \o StatsPrints
    /\ pc' = "complete"
    /\ UNCHANGED <<pipeline, outcome, faults, feed, db, conn, opens, queries,
                   neighborhoods, crime_data, data, layers, hour_counts, file,
                   clientVars>>

\* one of the lines after the save raises, after k of the three prints
H_StatsFail ==
    /\ pipeline = "hotspots" /\ pc = "stats"
    /\ H_Raise("stats")
    /\ \E k \in 0 .. 2 : log' = log \o SubSeq(StatsPrints, 1, k)
    /\ UNCHANGED <<neighborhoods, layers, file>>

\* main: create_chloropleth_map returned
H_Complete ==
    /\ pipeline = "hotspots" /\ pc = "complete"
    /\ log' = Say("Analysis complete!", "")
    /\ outcome' = "returned"
    /\ pc' = "done"
    /\ UNCHANGED <<pipeline, faults, feed, db, conn, opens, queries,
                   neighborhoods, crime_data, data, layers, hour_counts, file,
                   clientVars>>

\* main: except Exception as e: print, raise
H_Except ==
    /\ pipeline = "hotspots" /\ pc = "except"
    /\ log' = Say("An error occurred", "exception")
    /\ outcome' = "raised"
    /\ pc' = "done"
    /\ UNCHANGED <<pipeline, faults, feed, db, conn, opens, queries,
                   neighborhoods, crime_data, data, layers, hour_counts, file,
                   clientVars>>

NextHotspots ==
    \/ H_Start
    \/ H_FetchOk
    \/ H_FetchFail
    \/ H_ConnectOk
    \/ H_ConnectFail
    \/ H_QueryOk
    \/ H_GeometryFail
    \/ H_QueryFail
    \/ H_CheckAbort
    \/ H_CheckPass
    \/ H_Aggregate
    \/ H_AggregateFail
    \/ H_Render
    \/ H_RenderFail
    \/ H_Heatmap
    \/ H_HeatmapFail
    \/ H_Save
    \/ H_SaveFail
    \/ H_Stats
    \/ H_StatsFail
    \/ H_Complete
    \/ H_Except

(***************************************************************************)
(* main.py, create_layers: the overlay layers, two per year.               *)
(***************************************************************************)
YearFirst == 2020   \* range(2020, 2025)
YearStop == 2025
YearRange == YearFirst .. (YearStop - 1)
NumYears == YearStop - YearFirst

\* f'{year}': the decimal text of a year of the range
YearText(y) ==
    CASE y = 2020 -> "2020" [] y = 2021 -> "2021" [] y = 2022 -> "2022"
      [] y = 2023 -> "2023" [] y = 2024 -> "2024" [] OTHER -> "other"

\* a layer name is the sequence of the pieces of its f-string
ClusterName(y) == <<"cluster_", "year_", YearText(y)>>
HeatmapName(y) == <<"heatmap_", "year_", YearText(y)>>

StartsWith(name, prefix) == name[1] = prefix
EndsWith(name, suffix) == name[Len(name)] = suffix

\* the labels of the layer control's overlay list, in the order create_layers
\* attaches the layers to the map (cluster layer, then heatmap layer, per year)
OverlayLabels ==
    [i \in 1 .. (2 * NumYears) |->
        IF i % 2 = 1 THEN ClusterName(YearFirst + (i - 1) \div 2)
        ELSE HeatmapName(YearFirst + (i - 1) \div 2)]

(***************************************************************************)
(* main.py: the dashboard pipeline.                                        *)
(***************************************************************************)
HoursInDay == 24    \* range(24)

\* Series.dt.day_name(): Monday is day 0
DayName(dow) ==
    <<"Monday", "Tuesday", "Wednesday", "Thursday", "Friday", "Saturday",
      "Sunday">>[dow + 1]

\* Series.dt.month_name()
MonthName(m) ==
    <<"January", "February", "March", "April", "May", "June", "July", "August",
      "September", "October", "November", "December">>[m]

\* the seasons with the winter months taken as 1, 2, 3
Season_Shifted(x) ==
    IF x \in {1, 2, 3} THEN "Winter"
    ELSE IF x \in {4, 5, 6} THEN "Spring"
    ELSE IF x \in {7, 8, 9} THEN "Summer"
    ELSE "Fall"

\* the lambda mapped over the month
Season(x) ==
    IF x \in {12, 1, 2} THEN "Winter"
    ELSE IF x \in {3, 4, 5} THEN "Spring"
    ELSE IF x \in {6, 7, 8} THEN "Summer"
    ELSE "Fall"

\* the query of load_data: the located rows
QueryRows(rows) ==
    LET kept == SelectSeq(rows, Located)
    IN  [i \in DOMAIN kept |->
            [Latitude |-> Unwrap(kept[i].Latitude),
             Longitude |-> Unwrap(kept[i].Longitude),
             Year |-> kept[i].Year, Date |-> kept[i].Date]]

\* the derived columns of load_data
Derived(rows) ==
    [i \in DOMAIN rows |->
        [Latitude |-> rows[i].Latitude, Longitude |-> rows[i].Longitude,
         Year |-> rows[i].Year, Date |-> rows[i].Date,
         day_name |-> DayName(rows[i].Date.dayofweek),
         hour |-> rows[i].Date.hour,
         month_name |-> MonthName(rows[i].Date.month),
         season |-> Season(rows[i].Date.month)]]

\* [[row['Latitude'], row['Longitude']] for the rows of one year]
YearLocations(d, year) ==
    LET OfYear(r) == r.Year = year
        year_data == SelectSeq(d, OfYear)
    IN  [i \in DOMAIN year_data |-> <<year_data[i].Latitude, year_data[i].Longitude>>]

RECURSIVE LayersFrom(_, _)
\* the loop of create_layers from `year` on: a cluster layer and a heatmap
\* layer are attached to the map for every year of the range
LayersFrom(d, year) ==
    IF year >= YearStop THEN <<>>
    ELSE <<[name |-> ClusterName(year), items |-> YearLocations(d, year)],
           [name |-> HeatmapName(year), items |-> YearLocations(d, year)]>>
         \o LayersFrom(d, year + 1)

RECURSIVE LayersFrom_SkipEmpty(_, _)
\* the loop attaching a year's layers only when the year has incidents
LayersFrom_SkipEmpty(d, year) ==
    IF year >= YearStop THEN <<>>
    ELSE (IF YearLocations(d, year) = <<>> THEN <<>>
          ELSE <<[name |-> ClusterName(year), items |-> YearLocations(d, year)],
                 [name |-> HeatmapName(year), items |-> YearLocations(d, year)]>>)
         \o LayersFrom_SkipEmpty(d, year + 1)

create_layers_SkipEmpty(d) == LayersFrom_SkipEmpty(d, YearFirst)

create_layers(d) == LayersFrom(d, YearFirst)

\* how many rows of d have the hour h
HourCount(d, h) == Cardinality({i \in DOMAIN d : d[i].hour = h})

RECURSIVE Ascending(_)
\* the members of a set of numbers in increasing order
Ascending(S) ==
    IF S = {} THEN <<>>
    ELSE LET least == CHOOSE x \in S : \A y \in S : x <= y
         IN  <<least>> \o Ascending(S \ {least})

\* data['hour'].value_counts().sort_index(): one entry per hour that occurs
HourValueCounts(d) ==
    LET present == Ascending({d[i].hour : i \in DOMAIN d})
    IN  [i \in DOMAIN present |-> <<present[i], HourCount(d, present[i])>>]

\* f"{str(h%12 or 12)} {'AM' if h<12 else 'PM'}"
HourLabel(h) ==
    <<IF h % 12 = 0 THEN 12 ELSE h % 12, IF h < 12 THEN "AM" ELSE "PM">>

hour_labels == [i \in 1 .. HoursInDay |-> HourLabel(i - 1)]

\* hour_counts.index = hour_labels: allowed when the lengths agree
LabelsFit(counts) == Len(counts) = Len(hour_labels)

Relabelled(counts) == [i \in DOMAIN counts |-> <<hour_labels[i], counts[i][2]>>]

\* no try in main.py: an exception leaves main as it was raised
D_Raise(step) ==
    /\ faults' = faults \cup {step}
    /\ outcome' = "raised"
    /\ pc' = "done"
    /\ UNCHANGED <<pipeline, log, feed, db, opens, neighborhoods, crime_data,
                   data, hour_counts, clientVars>>

D_Start ==
    /\ pipeline = "dashboard" /\ pc = "start"
    /\ log' = Say("Loading data...", "")
    /\ pc' = "connect"
    /\ UNCHANGED <<pipeline, outcome, faults, feed, db, conn, opens, queries,
                   neighborhoods, crime_data, data, layers, hour_counts, file,
                   clientVars>>

D_ConnectOk ==
    /\ pipeline = "dashboard" /\ pc = "connect"
    /\ conn' = "open"
    /\ opens' = opens + 1
    /\ pc' = "query"
    /\ UNCHANGED <<pipeline, outcome, faults, log, feed, db, queries,
                   neighborhoods, crime_data, data, layers, hour_counts, file,
                   clientVars>>

D_ConnectFail ==
    /\ pipeline = "dashboard" /\ pc = "connect"
    /\ D_Raise("connect")
    /\ UNCHANGED <<conn, queries, layers, file>>

\* read_sql_query returns, conn.close()
D_QueryOk ==
    /\ pipeline = "dashboard" /\ pc = "query"
    /\ queries' = queries + 1
    /\ conn' = "closed"
    /\ data' = QueryRows(db)
    /\ pc' = "derive"
    /\ UNCHANGED <<pipeline, outcome, faults, log, feed, db, opens,
                   neighborhoods, crime_data, layers, hour_counts, file,
                   clientVars>>

\* read_sql_query raises: conn.close() is not reached
D_QueryFail ==
    /\ pipeline = "dashboard" /\ pc = "query"
    /\ queries' = queries + 1
    /\ D_Raise("query")
    /\ UNCHANGED <<conn, layers, file>>

\* to_datetime and the derived columns; load_data returns
D_Derive ==
    /\ pipeline = "dashboard" /\ pc = "derive"
    /\ data' = Derived(data)
    /\ log' = Say("Creating map...", "")
    /\ pc' = "layers"
    /\ UNCHANGED <<pipeline, outcome, faults, feed, db, conn, opens, queries,
                   neighborhoods, crime_data, layers, hour_counts, file,
                   clientVars>>

\* to_datetime raises on a timestamp it cannot parse
D_DeriveFail ==
    /\ pipeline = "dashboard" /\ pc = "derive"
    /\ D_Raise("derive")
    /\ UNCHANGED <<conn, queries, layers, file>>

\* initialize_map, create_layers, LayerControl, add_control_panel
D_CreateLayers ==
    /\ pipeline = "dashboard" /\ pc = "layers"
    /\ layers' = create_layers(data)
    /\ log' = Say("Creating analytics...", "")
    /\ pc' = "analytics"
    /\ UNCHANGED <<pipeline, outcome, faults, feed, db, conn, opens, queries,
                   neighborhoods, crime_data, data, hour_counts, file, clientVars>>

\* initialize_map, a line of create_layers, LayerControl or add_control_panel
\* raises: the overlays attached so far (lines 64-65) stay on the map
D_CreateLayersFail ==
    /\ pipeline = "dashboard" /\ pc = "layers"
    /\ D_Raise("layers")
    /\ \E k \in 0 .. Len(create_layers(data)) :
          layers' = SubSeq(create_layers(data), 1, k)
    /\ UNCHANGED <<conn, queries, file>>

\* create_analytics_html: the hourly view takes the 24 labels as its index
D_Analytics ==
    /\ pipeline = "dashboard" /\ pc = "analytics"
    /\ LabelsFit(HourValueCounts(data))
    /\ hour_counts' = Relabelled(HourValueCounts(data))
    /\ log' = Say("Saving dashboard...", "")
    /\ pc' = "render"
    /\ UNCHANGED <<pipeline, outcome, faults, feed, db, conn, opens, queries,
                   neighborhoods, crime_data, data, layers, file, clientVars>>

\* create_analytics_html: the index assignment raises on a length mismatch
D_AnalyticsMismatch ==
    /\ pipeline = "dashboard" /\ pc = "analytics"
    /\ ~LabelsFit(HourValueCounts(data))
    /\ D_Raise("analytics")
    /\ UNCHANGED <<conn, queries, layers, file>>

\* save_dashboard: map_object.get_root().render() and the document string
D_Render ==
    /\ pipeline = "dashboard" /\ pc = "render"
    /\ pc' = "open"
    /\ UNCHANGED <<pipeline, outcome, faults, log, feed, db, conn, opens,
                   queries, neighborhoods, crime_data, data, layers, hour_counts,
                   file, clientVars>>

D_RenderFail ==
    /\ pipeline = "dashboard" /\ pc = "render"
    /\ D_Raise("render")
    /\ UNCHANGED <<conn, queries, layers, file>>

\* open(filename, 'w'): the file is created, or truncated if it exists
D_Open ==
    /\ pipeline = "dashboard" /\ pc = "open"
    /\ file' = "empty"
    /\ pc' = "write"
    /\ UNCHANGED <<pipeline, outcome, faults, log, feed, db, conn, opens,
                   queries, neighborhoods, crime_data, data, layers, hour_counts,
                   clientVars>>

D_OpenFail ==
    /\ pipeline = "dashboard" /\ pc = "open"
    /\ D_Raise("open")
    /\ UNCHANGED <<conn, queries, layers, file>>

\* f.write(dashboard_html) and the end of the with block
D_Write ==
    /\ pipeline = "dashboard" /\ pc = "write"
    /\ file' = "full"
    /\ log' = Say("Dashboard has been saved as", "chicago_homicides_dashboard.html")
    /\ pc' = "finish"
    /\ UNCHANGED <<pipeline, outcome, faults, feed, db, conn, opens, queries,
                   neighborhoods, crime_data, data, layers, hour_counts,
                   clientVars>>

\* f.write raises: nothing or a part of the document has reached the file
D_WriteFail ==
    /\ pipeline = "dashboard" /\ pc = "write"
    /\ D_Raise("write")
    /\ file' \in {"empty", "partial"}
    /\ UNCHANGED <<conn, queries, layers>>

D_Finish ==
    /\ pipeline = "dashboard" /\ pc = "finish"
    /\ log' = Say("Done!", "")
    /\ outcome' = "returned"
    /\ pc' = "done"
    /\ UNCHANGED <<pipeline, faults, feed, db, conn, opens, queries,
                   neighborhoods, crime_data, data, layers, hour_counts, file,
                   clientVars>>

NextLoadData ==
    \/ D_Start
    \/ D_ConnectOk
    \/ D_ConnectFail
    \/ D_QueryOk
    \/ D_QueryFail
    \/ D_Derive
    \/ D_DeriveFail

NextDashboard ==
    \/ NextLoadData
    \/ D_CreateLayers
    \/ D_CreateLayersFail
    \/ D_Analytics
    \/ D_AnalyticsMismatch
    \/ D_Render
    \/ D_RenderFail
    \/ D_Open
    \/ D_OpenFail
    \/ D_Write
    \/ D_WriteFail
    \/ D_Finish

(***************************************************************************)
(* main.py, add_control_panel: the control script that runs in the browser.*)
(***************************************************************************)
\* the option values of the yearSelect drop-down
YearOptions == {"all", "2020", "2021", "2022", "2023", "2024"}

HeatmapText == "Switch to Cluster View"
ClusterText == "Switch to Heatmap View"

\* checkbox.click(): the checkbox changes state
Click(chk, name) == [chk EXCEPT ![name] = ~@]

\* the visibility test without the mode
ShouldBeVisible_AnyMode(layerName, selectedYear, mode) ==
    selectedYear = "all" \/ EndsWith(layerName, selectedYear)

ShouldBeVisible(layerName, selectedYear, mode) ==
    LET isHeatmapLayer == StartsWith(layerName, "heatmap_")
        isClusterLayer == StartsWith(layerName, "cluster_")
        yearMatch == selectedYear = "all" \/ EndsWith(layerName, selectedYear)
    IN  yearMatch /\ ((mode /\ isHeatmapLayer) \/ (~mode /\ isClusterLayer))

RECURSIVE UpdateFrom(_, _, _, _)
\* layers.forEach from the i-th label on
UpdateFrom(i, chk, selectedYear, mode) ==
    IF i > Len(OverlayLabels) THEN chk
    ELSE LET layerName == OverlayLabels[i]
             want == ShouldBeVisible(layerName, selectedYear, mode)
             next == IF want /\ ~chk[layerName] THEN Click(chk, layerName)
                     ELSE IF ~want /\ chk[layerName] THEN Click(chk, layerName)
                     ELSE chk
         IN  UpdateFrom(i + 1, next, selectedYear, mode)

updateLayers(chk, selectedYear, mode) == UpdateFrom(1, chk, selectedYear, mode)

Ready == started = NumYears + 1

\* the pipeline variables while the document is open in a browser
PipelineAtRest ==
    /\ pipeline = "dashboard" /\ pc = "done" /\ outcome = "returned"
    /\ faults = {} /\ log = <<>> /\ feed = <<>> /\ db = <<>>
    /\ conn = "closed" /\ opens = 1 /\ queries = 1
    /\ neighborhoods = None /\ crime_data = None /\ data = <<>>
    /\ layers = <<>> /\ hour_counts = <<>> /\ file = "full"

\* the page as loaded: every overlay is shown (FeatureGroup's default), the
\* drop-down is on its first option, no listener has run yet
InitClient ==
    /\ PipelineAtRest
    /\ checked = [n \in Range(OverlayLabels) |-> TRUE]
    /\ isHeatmapMode = FALSE
    /\ yearSelect = "all"
    /\ buttonText = ClusterText
    /\ started = 0
    /\ lastCall = "load"

\* create_layers' per-year listener: click the checkbox the selector finds; the
\* selector depends on an attribute of the layer control's markup, so it may
\* find the checkbox or find nothing (and the listener throws)
StartupClick ==
    /\ started < NumYears
    /\ \E found \in BOOLEAN :
         checked' = IF found THEN Click(checked, HeatmapName(YearFirst + started))
                    ELSE checked
    /\ started' = started + 1
    /\ lastCall' = "startupClick"
    /\ UNCHANGED <<isHeatmapMode, yearSelect, buttonText, pipeVars>>

\* add_control_panel's listener: isHeatmapMode = false, then filterByYear()
PanelInit ==
    /\ started = NumYears
    /\ isHeatmapMode' = FALSE
    /\ checked' = updateLayers(checked, yearSelect, FALSE)
    /\ started' = started + 1
    /\ lastCall' = "filterByYear"
    /\ UNCHANGED <<yearSelect, buttonText, pipeVars>>

toggleViewMode ==
    /\ Ready
    /\ isHeatmapMode' = ~isHeatmapMode
    /\ checked' = updateLayers(checked, yearSelect, ~isHeatmapMode)
    /\ buttonText' = IF ~isHeatmapMode THEN HeatmapText ELSE ClusterText
    /\ lastCall' = "toggleViewMode"
    /\ UNCHANGED <<yearSelect, started, pipeVars>>

filterByYear ==
    /\ Ready
    /\ checked' = updateLayers(checked, yearSelect, isHeatmapMode)
    /\ lastCall' = "filterByYear"
    /\ UNCHANGED <<isHeatmapMode, yearSelect, buttonText, started, pipeVars>>

\* the user ticks or unticks one overlay checkbox by hand
UserClick ==
    /\ Ready
    /\ \E n \in Range(OverlayLabels) : checked' = Click(checked, n)
    /\ lastCall' = "userClick"
    /\ UNCHANGED <<isHeatmapMode, yearSelect, buttonText, started, pipeVars>>

\* the user picks an option of the drop-down
UserSelect ==
    /\ Ready
    /\ \E o \in YearOptions : o # yearSelect /\ yearSelect' = o
    /\ lastCall' = "userSelect"
    /\ UNCHANGED <<checked, isHeatmapMode, buttonText, started, pipeVars>>

NextClient ==
    \/ StartupClick
    \/ PanelInit
    \/ toggleViewMode
    \/ filterByYear
    \/ UserClick
    \/ UserSelect

SpecClient == InitClient /\ [][NextClient]_vars

(***************************************************************************)
(* The runs of the two entry points.                                       *)
(***************************************************************************)
\* the browser variables while a pipeline runs: no page is open
ClientAtRest ==
    /\ checked = [n \in Range(OverlayLabels) |-> TRUE]
    /\ isHeatmapMode = FALSE
    /\ yearSelect = "all"
    /\ buttonText = ClusterText
    /\ started = 0
    /\ lastCall = "load"

\* one incident in each hour of the day, spread over the years and the months
FullDay ==
    [i \in 1 .. HoursInDay |->
        Row(Some(1), Some(1 + (i % 2)), YearFirst + (i % NumYears),
            1 + (i % 12), i - 1, i % 7)]

\* the tables the runs are given: empty; two located rows and one without
\* coordinates; every hour of the day
Tables ==
    { <<>>,
      <<Row(Some(1), Some(1), 2020, 1, 0, 0), Row(None, Some(2), 2021, 7, 13, 3),
        Row(Some(1), Some(2), 2022, 12, 23, 6)>>,
      FullDay }

\* the boundary feeds the runs are given: no polygon; one; two that overlap
Feeds ==
    { <<>>,
      <<Rect(0, 0, 2, GridMax)>>,
      <<Rect(0, 0, 2, GridMax), Rect(1, 0, GridMax, GridMax)>> }

Init ==
    /\ pipeline \in {"hotspots", "dashboard"}
    /\ pc = "start"
    /\ outcome = "running"
    /\ faults = {}
    /\ log = <<>>
    /\ feed \in (IF pipeline = "hotspots" THEN Feeds ELSE {<<>>})
    /\ db \in Tables
    /\ conn = "none" /\ opens = 0 /\ queries = 0
    /\ neighborhoods = None /\ crime_data = None
    /\ data = <<>> /\ layers = <<>> /\ hour_counts = <<>>
    /\ file \in {"absent", "old"}
    /\ ClientAtRest

Next == NextHotspots \/ NextDashboard

Spec == Init /\ [][Next]_vars

(***************************************************************************)
(* load_data on every timestamp: one located row per month, hour, weekday. *)
(***************************************************************************)
InitDerive ==
    /\ pipeline = "dashboard"
    /\ pc = "start"
    /\ outcome = "running"
    /\ faults = {}
    /\ log = <<>>
    /\ feed = <<>>
    /\ db \in {<<Row(Some(1), Some(1), YearFirst, m, h, d)>> :
                  m \in 1 .. 12, h \in 0 .. (HoursInDay - 1), d \in 0 .. 6}
    /\ conn = "none" /\ opens = 0 /\ queries = 0
    /\ neighborhoods = None /\ crime_data = None
    /\ data = <<>> /\ layers = <<>> /\ hour_counts = <<>>
    /\ file = "absent"
    /\ ClientAtRest

SpecDerive == InitDerive /\ [][NextLoadData]_vars

(***************************************************************************)
(* The aggregation step on every feed and table within the bounds.         *)
(***************************************************************************)
SeqsUpTo(S, n) == UNION {[1 .. k -> S] : k \in 0 .. n}

\* rectangles as high as the grid, and incidents on the row y = 1
Rects ==
    {Rect(c[1], 0, c[2], GridMax) :
        c \in {d \in (0 .. GridMax) \X (0 .. GridMax) : d[1] < d[2]}}
PointRows == {Row(Some(1), Some(x), YearFirst, 1, 0, 0) : x \in 0 .. GridMax}

\* the state create_chloropleth_map is in when both loads have succeeded
InitAgg ==
    /\ pipeline = "hotspots"
    /\ pc = "aggregate"
    /\ outcome = "running"
    /\ faults = {}
    /\ log = <<<<"Starting hotspot analysis...", "">>,
               <<"Loading neighborhood boundaries...", "">>,
               <<"Loading crime data...", "">>,
               <<"Analyzing crime patterns...", "">>>>
    /\ feed \in SeqsUpTo(Rects, MaxPolys)
    /\ db \in SeqsUpTo(PointRows, MaxPoints)
    /\ conn = "closed" /\ opens = 1 /\ queries = 1
    /\ neighborhoods = Some(FromFeatures(feed))
    /\ crime_data = Some(CrimeRows(db))
    /\ data = <<>> /\ layers = <<>> /\ hour_counts = <<>>
    /\ file = "absent"
    /\ ClientAtRest

NextAgg == H_Aggregate \/ H_AggregateFail

SpecAgg == InitAgg /\ [][NextAgg]_vars

(***************************************************************************)
(* The claims.                                                             *)
(***************************************************************************)
HasLogged(text, arg) ==
    \E i \in DOMAIN log : log[i][1] = text /\ log[i][2] = arg

\* C1: when the boundary fetch of the choropleth pipeline fails, the failure is
\* caught and logged, load_chicago_neighborhoods returns None, the pipeline
\* returns before aggregation, rendering and m.save, and the output file is
\* never written.
C1_FetchFailureWritesNothing ==
    (pipeline = "hotspots" /\ "fetch" \in faults) =>
        /\ neighborhoods = None
        /\ HasLogged("Error loading neighborhood data", "fetch")
        /\ pc \notin {"aggregate", "render", "heatmap", "save", "stats", "except"}
        /\ outcome # "raised"
        /\ layers = <<>>
        /\ Untouched(file)

\* the fetch failed, the crime data loaded, and the run has ended
C1_Witness ==
    /\ pipeline = "hotspots" /\ pc = "done"
    /\ faults = {"fetch"}
    /\ crime_data # None
    /\ HasLogged("Error: Could not load required data", "")

\* C2: in both pipelines, when connect or the query raises, the failure is
\* caught inside the load step, a message is logged, nothing propagates, and the
\* caller returns early without rendering or writing any output.
C2_LoadFailureCaught ==
    (faults \cap {"connect", "query"} # {}) =>
        /\ outcome # "raised"
        /\ pc # "except"
        /\ \E step \in {"connect", "query"} : HasLogged("Error loading crime data", step)
        /\ layers = <<>>
        /\ Untouched(file)

\* the steps after the load step at which an exception can be raised
LaterSteps ==
    {"aggregate", "render", "save", "stats", "layers", "analytics", "open",
     "write"}

\* C3: in both entry points a failure of aggregation, rendering or saving is
\* logged with its message at the top level and then re-raised: none leaves an
\* entry point unlogged and none is swallowed.
C3_FailureLoggedThenReraised ==
    (pc = "done" /\ faults \cap LaterSteps # {}) =>
        /\ outcome = "raised"
        /\ log # <<>>
        /\ log[Len(log)][1] = "An error occurred"

\* C4: every run ends with the full document in the output file and no
\* failure, or with a failure or abort and no output file created, truncated
\* or partly written.
C4_AllOrNothingOutput ==
    pc = "done" =>
        \/ outcome = "returned" /\ faults = {} /\ file = "full"
        \/ (outcome = "raised" \/ faults # {}) /\ Untouched(file)

\* the number of loaded incidents within the geometry g
NumWithin(g) ==
    Cardinality({i \in DOMAIN Unwrap(crime_data) :
                    Within(Unwrap(crime_data)[i].geometry, g)})

CountsAreExact ==
    \A i \in DOMAIN Unwrap(neighborhoods) :
        Unwrap(neighborhoods)[i].crime_count = NumWithin(Unwrap(neighborhoods)[i].geometry)

CountTotal ==
    SumSeq([i \in DOMAIN Unwrap(neighborhoods) |-> Unwrap(neighborhoods)[i].crime_count])

\* no loaded incident lies within two polygons of the feed
NoSharedIncident ==
    \A k \in DOMAIN Unwrap(crime_data) :
        \A i, j \in DOMAIN Unwrap(neighborhoods) :
            (/\ Within(Unwrap(crime_data)[k].geometry, Unwrap(neighborhoods)[i].geometry)
             /\ Within(Unwrap(crime_data)[k].geometry, Unwrap(neighborhoods)[j].geometry))
            => i = j

\* C5 as stated: for any polygons, also polygons that share area, after the
\* aggregation loop every crime_count is the number of incidents within the
\* polygon and the counts sum to at most the number of loaded incidents.
C5_SumAtMostTotal ==
    (pipeline = "hotspots" /\ pc = "render") =>
        /\ CountsAreExact
        /\ CountTotal <= Len(Unwrap(crime_data))

\* C5 as amended: the same, for feeds in which no loaded incident lies within
\* more than one polygon.
C5_SumAtMostTotalUnshared ==
    (pipeline = "hotspots" /\ pc = "render" /\ NoSharedIncident) =>
        /\ CountsAreExact
        /\ CountTotal <= Len(Unwrap(crime_data))

\* two polygons that share area, each with one incident of its own
C5_Witness ==
    /\ pipeline = "hotspots" /\ pc = "render"
    /\ NoSharedIncident
    /\ Len(Unwrap(neighborhoods)) = 2
    /\ Unwrap(neighborhoods)[1].geometry.x2 > Unwrap(neighborhoods)[2].geometry.x1
    /\ Unwrap(neighborhoods)[1].crime_count = 1
    /\ Unwrap(neighborhoods)[2].crime_count = 1
    /\ Len(Unwrap(crime_data)) = 2

\* C6: for every incident collection, the empty one and those that miss some
\* hours included, create_analytics_html completes and its hourly view has 24
\* entries in hour order, the entry of hour h labelled with h's 12-hour label
\* and carrying the number of incidents of hour h.
C6_HourlyViewComplete ==
    /\ "analytics" \notin faults
    /\ (pipeline = "dashboard" /\ pc \in {"render", "open", "write", "finish"}) =>
          /\ Len(hour_counts) = HoursInDay
          /\ \A h \in 0 .. (HoursInDay - 1) :
                hour_counts[h + 1] = <<HourLabel(h), HourCount(data, h)>>

\* C7 as stated: with an empty incident collection no overlay layer is attached
\* to the map by create_layers.
C7_EmptyDataNoOverlay ==
    (pipeline = "dashboard" /\ pc = "analytics" /\ data = <<>>) => Len(layers) = 0

\* C7 as amended: with an empty incident collection create_layers attaches ten
\* overlay layers, a cluster layer and a heatmap layer for each year 2020..2024,
\* and every one of them is empty.
C7_EmptyDataEmptyOverlays ==
    (pipeline = "dashboard" /\ pc = "analytics" /\ data = <<>>) =>
        /\ Len(layers) = 10
        /\ \A y \in 2020 .. 2024 :
              /\ \E i \in DOMAIN layers : layers[i].name = <<"cluster_", "year_", YearText(y)>>
              /\ \E i \in DOMAIN layers : layers[i].name = <<"heatmap_", "year_", YearText(y)>>
        /\ \A i \in DOMAIN layers : layers[i].items = <<>>

\* create_layers has run on the empty collection
C7_Witness ==
    /\ pipeline = "dashboard" /\ pc = "analytics"
    /\ db = <<>> /\ data = <<>>
    /\ layers # <<>>

\* C8: the season of load_data is total over the months 1..12, with 12, 1, 2 ->
\* Winter, 3, 4, 5 -> Spring, 6, 7, 8 -> Summer, 9, 10, 11 -> Fall, and no other
\* label.
C8_SeasonPartition ==
    (pipeline = "dashboard" /\ pc = "layers") =>
        \A i \in DOMAIN data :
            LET m == data[i].Date.month
                season == data[i].season
            IN  /\ season \in {"Winter", "Spring", "Summer", "Fall"}
                /\ (season = "Winter") = (m = 12 \/ m = 1 \/ m = 2)
                /\ (season = "Spring") = (m = 3 \/ m = 4 \/ m = 5)
                /\ (season = "Summer") = (m = 6 \/ m = 7 \/ m = 8)
                /\ (season = "Fall") = (m = 9 \/ m = 10 \/ m = 11)

\* a December incident has been classified
C8_Witness ==
    /\ pipeline = "dashboard" /\ pc = "layers"
    /\ Len(data) = 1
    /\ data[1].Date.month = 12
    /\ data[1].season = "Winter"

\* C9: in each load step the connection is opened once, queried once, and
\* closed by the time the load step ends, whether the query succeeds or raises.
C9_ConnectionClosedAfterLoad ==
    /\ opens <= 1
    /\ queries <= 1
    /\ pc \notin {"start", "fetch", "connect", "query"} => conn # "open"

\* C10: right after toggleViewMode or filterByYear, every overlay is checked
\* exactly when its year matches the selection (or 'all') and its prefix matches
\* the mode; no cluster and heatmap layer are then both checked; and the button
\* reads 'Switch to Cluster View' exactly when isHeatmapMode is true.
C10_LayersFollowSelection ==
    /\ lastCall \in {"toggleViewMode", "filterByYear"} =>
         /\ \A y \in YearRange :
              /\ checked[HeatmapName(y)] =
                    (isHeatmapMode /\ yearSelect \in {"all", YearText(y)})
              /\ checked[ClusterName(y)] =
                    (~isHeatmapMode /\ yearSelect \in {"all", YearText(y)})
         /\ ~ \E y1, y2 \in YearRange :
                checked[HeatmapName(y1)] /\ checked[ClusterName(y2)]
    /\ (buttonText = HeatmapText) = isHeatmapMode

\* a call made from a hand-made state: a year is selected, heatmap mode is on,
\* and the call has just hidden and shown layers accordingly
C10_Witness ==
    /\ lastCall = "toggleViewMode"
    /\ isHeatmapMode
    /\ yearSelect = "2022"
    /\ checked[HeatmapName(2022)]
    /\ ~checked[ClusterName(2022)]

====
